---- MODULE Spec2Model ----
(***************************************************************************)
(* NoisePy step 1 (S1_do_fft_all_formats.py): every MPI rank runs the      *)
(* script.  Rank 0 lists the inputs and broadcasts the work list, each     *)
(* rank walks its share of the station loop, turns each station-day-       *)
(* channel trace into a half-spectrum frame and appends it to the          *)
(* station's archive, and all ranks meet at a final barrier.               *)
(*                                                                         *)
(* Time is counted in sample intervals of the trace (delta = 1), so a      *)
(* trace with npts samples lasts L = npts-1 and a window of cc_len holds   *)
(* cc_len+1 samples.  Sample values are abstracted to the classes          *)
(*   "z" zero, "p" nonzero finite, "nan", "inf".                           *)
(***************************************************************************)
EXTENDS Integers, Sequences, FiniteSets, TLC

\* ------------------------------------------------------------------ bounds
MaxSize  == 2     \* MPI ranks
MaxEvent == 2     \* entries matched by glob(event)
MaxSta   == 2     \* rows of locations.txt / distinct station names
MaxTags  == 2     \* waveform tags of one ASDF station
MaxFiles == 1     \* files of one station in one day directory
MaxLen   == 4     \* duration of a trace, in sample intervals
MaxCcLen == 4     \* largest cc_len tried, in sample intervals
MaxStep  == 2     \* largest step tried, in sample intervals

NoneVal == 0 - 1                      \* Python's None for an integer slot
Stations == 1 .. MaxSta
RankIds == 0 .. (MaxSize - 1)
smooth_N_on == 100                    \* smooth_N=100

VARIABLES
    fft_para,   \* the control parameters (the fft_para dictionary)
    size,       \* comm.Get_size()
    nEvent,     \* len(glob.glob(event))
    nLocs,      \* rows of the station table read from locations
    bcastVal,   \* value sent by the root's comm.bcast(splits), NoneVal before
    pc,         \* position of each rank in the script
    err,        \* the exception that ended a rank, "" if none
    splits,     \* each rank's variable splits
    ista,       \* each rank's station-loop variable
    jj,         \* each rank's day-loop variable (sac/mseed)
    k,          \* each rank's index in the tag loop (asdf) or file loop
    n,          \* length of the list that k walks
    sta,        \* station whose archive the rank's current body writes
    cur,        \* what the rank carries from the spectrum to the sink
    assigned,   \* the indices for which the rank entered the loop body
    archives,   \* the FFT archives on disk, by station name
    owners,     \* which ranks have tested, created or opened each archive
    unit        \* what the step just taken logged about a unit, else NoUnit

vars == <<fft_para, size, nEvent, nLocs, bcastVal, pc, err, splits, ista, jj,
          k, n, sta, cur, assigned, archives, owners, unit>>

Ranks == 0 .. (size - 1)

\* ------------------------------------------------------- control parameters
Formats == {"asdf", "sac", "mseed", "", "hdf"}

\* norm_type='running_mean'; if not to_whiten: norm_type=''
NormType(to_whiten) == IF to_whiten THEN "running_mean" ELSE ""

\* whiten_type='running_mean'; smooth_N=100; if not time_norm: both cleared
WhitenType(time_norm) == IF time_norm THEN "running_mean" ELSE ""

SmoothN(time_norm) == IF time_norm THEN smooth_N_on ELSE 0

Params ==
    { [data_format |-> f, prepro |-> p, to_whiten |-> w, time_norm |-> t,
       norm_type |-> NormType(w), whiten_type |-> WhitenType(t),
       smooth_N |-> SmoothN(t), cc_len |-> c, step |-> s] :
         f \in Formats, p \in BOOLEAN, w \in BOOLEAN, t \in BOOLEAN,
         c \in 2 .. MaxCcLen, s \in 1 .. MaxStep }

\* The processing parameters as the script ships them: prepro, to_whiten and
\* time_norm False, cc_len twice the step.
Shipped(p) == /\ ~p.prepro /\ ~p.to_whiten /\ ~p.time_norm
              /\ p.cc_len = MaxCcLen /\ p.step = MaxCcLen \div 2

OneInput(sz, ne, nl) == sz = 1 /\ ne <= 1 /\ nl <= 1

\* How many units one pass of the station loop may hold (tags of an ASDF
\* station, day directories and files of a sac/mseed station): several on a
\* run of one rank, one on a run of several ranks.
UnitsPerPass(sz, most) == IF sz = 1 THEN most ELSE 1

IsAsdf == fft_para.data_format = "asdf"

NoUnit == [outcome |-> "NONE", reason |-> "", mad |-> "", std |-> "",
           L |-> NoneVal, wins |-> <<>>, ratios |-> <<>>, NtS |-> 0, Nfft |-> 0,
           trail |-> <<>>, zeroDen |-> FALSE, white |-> "", spec |-> ""]

NoCur == [loc |-> 0, spec |-> "", itag |-> 0]

NoArchive == [exists |-> FALSE, inv |-> FALSE, frames |-> {}]

Init ==
    /\ fft_para \in Params
    /\ size \in 1 .. MaxSize
    /\ nEvent \in 0 .. MaxEvent
    /\ nLocs \in 0 .. MaxSta
    /\ (fft_para.data_format = "asdf" => nLocs = 0)
    \* What a pass does with a trace depends neither on the other units nor
    \* on the other ranks: the processing parameters are varied on runs of
    \* one rank over one input, the ranks and the inputs under the shipped
    \* parameters.  A run of several ranks holds one day directory.
    /\ OneInput(size, nEvent, nLocs) \/ Shipped(fft_para)
    /\ (fft_para.data_format # "asdf" => nEvent <= UnitsPerPass(size, MaxEvent))
    /\ bcastVal = NoneVal
    /\ pc = [r \in RankIds |-> IF r < size THEN "start" ELSE "absent"]
    /\ err = [r \in RankIds |-> ""]
    /\ splits = [r \in RankIds |-> NoneVal]
    /\ ista = [r \in RankIds |-> r]
    /\ jj = [r \in RankIds |-> 0]
    /\ k = [r \in RankIds |-> 0]
    /\ n = [r \in RankIds |-> 0]
    /\ sta = [r \in RankIds |-> 0]
    /\ cur = [r \in RankIds |-> NoCur]
    /\ assigned = [r \in RankIds |-> {}]
    /\ archives = [s \in Stations |-> NoArchive]
    /\ owners = [s \in Stations |-> {}]
    /\ unit = NoUnit

\* -------------------------------------------------------------- setup
\* The exception raised by the checks every rank runs before the broadcast,
\* "" if none.
SetupError(r) ==
    IF nEvent = 0 THEN "NoDataFile"
    ELSE IF fft_para.data_format = "" THEN "NoFormat"
    ELSE IF fft_para.data_format \notin {"asdf", "sac", "mseed"} THEN "BadFormat"
    ELSE IF r = 0 /\ (IF IsAsdf THEN nEvent ELSE nLocs) = 0 THEN "NoStations"
    ELSE ""

Setup(r) ==
    /\ pc[r] = "start"
    /\ IF SetupError(r) # ""
       THEN /\ pc' = [pc EXCEPT ![r] = "error"]
            /\ err' = [err EXCEPT ![r] = SetupError(r)]
            /\ UNCHANGED splits
       ELSE /\ pc' = [pc EXCEPT ![r] = "bcast"]
            /\ splits' = [splits EXCEPT ![r] =
                            IF r = 0 THEN (IF IsAsdf THEN nEvent ELSE nLocs)
                            ELSE NoneVal]
            /\ UNCHANGED err
    /\ UNCHANGED <<fft_para, size, nEvent, nLocs, bcastVal, ista, jj, k, n, sta,
                   cur, assigned, archives, owners>>
    /\ unit' = NoUnit

\* comm.bcast(...,root=0): the root sends its value, the others wait for it.
Bcast(r) ==
    /\ pc[r] = "bcast"
    /\ IF r = 0
       THEN /\ bcastVal' = splits[0]
            /\ UNCHANGED splits
       ELSE /\ bcastVal # NoneVal
            /\ splits' = [splits EXCEPT ![r] = bcastVal]
            /\ UNCHANGED bcastVal
    /\ pc' = [pc EXCEPT ![r] = "loop"]
    /\ UNCHANGED <<fft_para, size, nEvent, nLocs, err, ista, jj, k, n, sta,
                   cur, assigned, archives, owners>>
    /\ unit' = NoUnit

\* ---------------------------------------------------------- station loop
\* The loop without its padding: range(rank, splits-extra, size)
LoopStop_NoPad(sp, sz) == sp - (sp % sz)

\* extra = splits % size; range(rank, splits+size-extra, size)
LoopStop(sp, sz) == sp + sz - (sp % sz)

\* if ista<splits
InBody(i, sp) == i < sp

\* What opening an ASDF input can give.
OpenOutcomes == {"unreadable", "nowaveforms", "notags", "ok"}

StationLoop(r) ==
    /\ pc[r] = "loop"
    /\ IF ista[r] >= LoopStop(splits[r], size)
       THEN /\ pc' = [pc EXCEPT ![r] = "barrier"]
            /\ UNCHANGED <<err, ista, jj, k, n, sta, assigned>>
            /\ unit' = NoUnit
       ELSE IF ~InBody(ista[r], splits[r])
       THEN /\ ista' = [ista EXCEPT ![r] = @ + size]
            /\ UNCHANGED <<pc, err, jj, k, n, sta, assigned>>
            /\ unit' = NoUnit
       ELSE /\ assigned' = [assigned EXCEPT ![r] = @ \cup {ista[r]}]
            /\ IF IsAsdf
               THEN \E o \in OpenOutcomes, s \in Stations,
                         nt \in 1 .. UnitsPerPass(size, MaxTags) :
                      CASE o = "unreadable" ->
                             \* pyasdf.ASDFDataSet(tdir[ista],mode='r') raises
                             /\ pc' = [pc EXCEPT ![r] = "error"]
                             /\ err' = [err EXCEPT ![r] = "OpenFailed"]
                             /\ unit' = [NoUnit EXCEPT !.outcome = "CRASHED",
                                                       !.reason = "unreadable"]
                             /\ UNCHANGED <<ista, jj, k, n, sta>>
                        [] o \in {"nowaveforms", "notags"} ->
                             \* continue
                             /\ ista' = [ista EXCEPT ![r] = @ + size]
                             /\ unit' = [NoUnit EXCEPT !.outcome = "SKIPPED",
                                                       !.reason = o]
                             /\ UNCHANGED <<pc, err, jj, k, n, sta>>
                        [] OTHER ->
                             /\ pc' = [pc EXCEPT ![r] = "unit"]
                             /\ sta' = [sta EXCEPT ![r] = s]
                             /\ k' = [k EXCEPT ![r] = 0]
                             /\ n' = [n EXCEPT ![r] = nt]
                             /\ UNCHANGED <<err, ista, jj>>
                             /\ unit' = NoUnit
               ELSE /\ pc' = [pc EXCEPT ![r] = "days"]
                    /\ jj' = [jj EXCEPT ![r] = 0]
                    /\ UNCHANGED <<err, ista, k, n, sta>>
                    /\ unit' = NoUnit
    /\ UNCHANGED <<fft_para, size, nEvent, nLocs, bcastVal, splits, cur,
                   archives, owners>>

\* ------------------------------------------------------------ one unit
Min(a, b) == IF a < b THEN a ELSE b

\* Left edges of Trace.slide: every S from the start of the trace, while
\* before its end.
RECURSIVE Lefts(_, _, _)
Lefts(i, L, S) == IF i < L THEN <<i>> \o Lefts(i + S, L, S) ELSE <<>>

\* slide with include_partial_windows=True keeps every window
KeepWindow_Partial(w, W) == w.stop > w.start

\* slide(window_length, step) keeps full windows only
\* (include_partial_windows is left at its default, False).
KeepWindow(w, W) == w.stop - w.start >= W

\* source[0].slide(window_length=cc_len, step=step) on a trace of duration L
Slide(L, W, S) ==
    LET lefts == Lefts(0, L, S)
        all == [x \in 1 .. Len(lefts) |->
                  [start |-> lefts[x], stop |-> Min(lefts[x] + W, L)]]
        Keep(w) == KeepWindow(w, W)
    IN SelectSeq(all, Keep)

\* win.stats.npts of a window: both end samples belong to it
Npts(w) == w.stop - w.start + 1

\* x / a on the classes of values
Div(x, a) ==
    IF x = "nan" \/ a = "nan" THEN "nan"
    ELSE IF a = "z" THEN (IF x = "z" THEN "nan" ELSE "inf")
    ELSE x

\* (all_madS, all_stdS) of a day of data: ordinary, more than half of the
\* samples equal, constant, holding a NaN
DayStats == {<<"p", "p">>, <<"z", "p">>, <<"z", "z">>, <<"nan", "nan">>}

\* The test that skips a day:
\*   asdf      : all_madS==0 or all_stdS==0 or isnan(all_madS) or isnan(all_stdS)
\*   sac/mseed : all_madS==0 or all_stdS==0          (NaN==0 is False)
Degenerate(fmt, mad, std) ==
    IF fmt = "asdf"
    THEN mad = "z" \/ std = "z" \/ mad = "nan" \/ std = "nan"
    ELSE mad = "z" \/ std = "z"

\* Class of the samples of window i after detrend and taper: NaN data stays
\* NaN, a window over a zero-filled gap is all zero.
WinClass(in, i) ==
    IF in.mad = "nan" THEN "nan"
    ELSE IF in.quiet /\ i = 1 THEN "z" ELSE "p"

RECURSIVE MaxOf(_)
MaxOf(s) == IF Len(s) = 0 THEN 0
            ELSE LET m == MaxOf(Tail(s)) IN IF Head(s) > m THEN Head(s) ELSE m

RECURSIVE Smooth5(_)
Smooth5(x) ==
    IF x <= 1 THEN x = 1
    ELSE IF x % 2 = 0 THEN Smooth5(x \div 2)
    ELSE IF x % 3 = 0 THEN Smooth5(x \div 3)
    ELSE IF x % 5 = 0 THEN Smooth5(x \div 5)
    ELSE FALSE

\* next_fast_len(target): the smallest number >= target whose only prime
\* factors are 2, 3 and 5
RECURSIVE next_fast_len(_)
next_fast_len(target) ==
    IF target <= 1 \/ Smooth5(target) THEN target ELSE next_fast_len(target + 1)

\* dataS = zeros((N,NtS)); dataS[ii,0:nptsS[ii]] = trace.data
Pack(in, wins, NtS) ==
    [i \in 1 .. Len(wins) |->
        [j \in 1 .. NtS |-> IF j <= Npts(wins[i]) THEN WinClass(in, i) ELSE "z"]]

\* Class of a sum of absolute values
SumClass(S) ==
    IF "nan" \in S THEN "nan"
    ELSE IF "inf" \in S THEN "inf"
    ELSE IF "p" \in S THEN "p" ELSE "z"

\* moving_ave(A,N): the centred running mean of A over the samples within N
\* of each position, same length as A
moving_ave(A, N) ==
    [j \in 1 .. Len(A) |->
        SumClass({A[x] : x \in {y \in 1 .. Len(A) : y >= j - N /\ y <= j + N}})]

\* white[kkk,:] = dataS[kkk,:]/moving_ave(np.abs(dataS[kkk,:]),smooth_N)
RunningMeanRow(row, N) ==
    LET ave == moving_ave(row, N)
    IN [j \in 1 .. Len(row) |-> Div(row[j], ave[j])]

\* np.sign
Sign(x) == IF x = "inf" THEN "p" ELSE x

\* The time-domain normalisation: the matrix white, or no assignment at all.
TimeNormalize(para, dataS) ==
    IF para.time_norm
    THEN IF para.norm_type = "one_bit"
         THEN [defined |-> TRUE,
               m |-> [i \in 1 .. Len(dataS) |->
                        [j \in 1 .. Len(dataS[i]) |-> Sign(dataS[i][j])]]]
         ELSE IF para.norm_type = "running_mean"
         THEN [defined |-> TRUE,
               m |-> [i \in 1 .. Len(dataS) |->
                        RunningMeanRow(dataS[i], para.smooth_N)]]
         ELSE [defined |-> FALSE, m |-> <<>>]
    ELSE [defined |-> TRUE, m |-> dataS]

Finite(m) == \A i \in 1 .. Len(m) : \A j \in 1 .. Len(m[i]) : m[i][j] \in {"z", "p"}

ZeroAverage(para, dataS) ==
    /\ para.time_norm
    /\ para.norm_type = "running_mean"
    /\ \E i \in 1 .. Len(dataS) :
         \E j \in 1 .. Len(dataS[i]) : moving_ave(dataS[i], para.smooth_N)[j] = "z"

\* A forward transform of rows: finite rows give a finite spectrum, anything
\* else spreads over the row.
Transform(m) == IF Finite(m) THEN "fin" ELSE "nan"

\* The whitening dispatch: "fin"/"nan" for the spectrum source_white, "none"
\* when no branch assigns it, "NameError" when white is read unassigned.
Spectrum(para, white) ==
    IF para.to_whiten
    THEN IF para.whiten_type \in {"one_bit", "running_mean"}
         THEN (IF white.defined THEN Transform(white.m) ELSE "NameError")
         ELSE "none"
    ELSE IF white.defined THEN Transform(white.m) ELSE "NameError"

\* The last test before the matrix is built: if len(source_slice) == 0
NoTraces(wins) == Len(wins) = 0

\* How the pass leaves on an empty window set.  The asdf branch prints
\* "No traces for %s" % source after del source, a NameError; the sac/mseed
\* branch prints tfile and continues.
NoTracesExit(fmt) == IF fmt = "asdf" THEN "CRASHED" ELSE "SKIPPED"

\* From the day statistics to the spectrum, for a trace that was read.
Analyse(para, in) ==
    LET base == [NoUnit EXCEPT !.mad = in.mad, !.std = in.std]
    IN
    IF Degenerate(para.data_format, in.mad, in.std)
    THEN [base EXCEPT !.outcome = "SKIPPED", !.reason = "degenerate"]
    ELSE
    LET wins == Slide(in.L, para.cc_len, para.step)
        ratios == [i \in 1 .. Len(wins) |->
                     <<Div(WinClass(in, i), in.mad), Div(WinClass(in, i), in.std)>>]
        seg == [base EXCEPT !.L = in.L, !.wins = wins, !.ratios = ratios,
                            !.trail = <<"metrics_ok", "segmented">>]
    IN
    IF NoTraces(wins)
    THEN [seg EXCEPT !.outcome = NoTracesExit(para.data_format),
                     !.reason = IF NoTracesExit(para.data_format) = "CRASHED"
                                THEN "NameError_source" ELSE "nowindows"]
    ELSE
    LET NtS == MaxOf([i \in 1 .. Len(wins) |-> Npts(wins[i])])
        dataS == Pack(in, wins, NtS)
        Nfft == next_fast_len(NtS)
        white == TimeNormalize(para, dataS)
        sw == Spectrum(para, white)
        packed == [seg EXCEPT !.NtS = NtS, !.Nfft = Nfft,
                      !.zeroDen = ZeroAverage(para, dataS),
                      !.white = IF ~white.defined THEN "none"
                                ELSE IF Finite(white.m) THEN "fin" ELSE "bad",
                      !.trail = seg.trail \o <<"packed">>
                                \o (IF white.defined THEN <<"time_normalized">> ELSE <<>>)
                                \o (IF sw \in {"fin", "nan"}
                                    THEN <<"spectrum_computed">> ELSE <<>>)]
    IN
    IF sw = "NameError"
    THEN [packed EXCEPT !.outcome = "CRASHED", !.reason = "NameError"]
    ELSE [packed EXCEPT !.outcome = "READY", !.spec = sw]

\* What preprocess_raw can do with a trace.
PrepOutcomes == {"ok", "empty", "raise"}

\* One pass of the tag loop body of the asdf branch.
UnitAsdf(para, in) ==
    IF ~in.raw /\ para.prepro
    THEN CASE in.prep = "raise" ->
                [NoUnit EXCEPT !.outcome = "CRASHED", !.reason = "PreproFailed"]
           [] in.prep = "empty" ->
                \* source[0] of an empty stream
                [NoUnit EXCEPT !.outcome = "CRASHED", !.reason = "IndexError"]
           [] OTHER -> Analyse(para, in)
    ELSE Analyse(para, in)

\* One pass of the file loop body of the sac/mseed branch.
UnitSac(para, in) ==
    IF ~in.readable
    THEN [NoUnit EXCEPT !.outcome = "SKIPPED", !.reason = "unreadable"]
    ELSE IF para.prepro
    THEN CASE in.prep = "raise" ->
                [NoUnit EXCEPT !.outcome = "CRASHED", !.reason = "PreproFailed"]
           [] in.prep = "empty" ->
                [NoUnit EXCEPT !.outcome = "SKIPPED", !.reason = "empty"]
           [] OTHER -> Analyse(para, in)
    ELSE Analyse(para, in)

RunUnit(para, in) ==
    IF para.data_format = "asdf" THEN UnitAsdf(para, in) ELSE UnitSac(para, in)

\* The traces a unit can meet.  A field the pass never reads (the read
\* outcome in asdf, the tag name and the preprocessing outcome without
\* prepro, the samples of a day that is skipped) is listed with one value.
\* Durations and gaps are varied on runs of one rank over one input; the
\* other runs meet traces of the longest duration.
Trace(rd, rw, pp, ds, l, q) ==
    [readable |-> rd, raw |-> rw, prep |-> pp, mad |-> ds[1], std |-> ds[2],
     L |-> l, quiet |-> q]

UnitInputs(para, one) ==
    LET Durations == IF one THEN 0 .. MaxLen ELSE {MaxLen}
    IN
    LET Skipped(ds) == Degenerate(para.data_format, ds[1], ds[2])
        read == { Trace(TRUE, TRUE, "ok", ds, MaxLen, FALSE) :
                    ds \in {d \in DayStats : Skipped(d)} }
                \cup { Trace(TRUE, TRUE, "ok", ds, l, FALSE) :
                          ds \in {d \in DayStats : ~Skipped(d)}, l \in Durations }
                \cup { Trace(TRUE, TRUE, "ok", <<"p", "p">>, l, TRUE) :
                          l \in {d \in Durations : one} }
        unread == IF para.data_format = "asdf" THEN {}
                  ELSE { Trace(FALSE, TRUE, "ok", <<"p", "p">>, MaxLen, FALSE) }
        failed == IF para.prepro
                  THEN { Trace(TRUE, FALSE, pp, <<"p", "p">>, MaxLen, FALSE) :
                           pp \in PrepOutcomes \ {"ok"} }
                  ELSE {}
        cooked == IF para.prepro /\ para.data_format = "asdf"
                  THEN { Trace(TRUE, FALSE, "ok", <<"p", "p">>, MaxLen, FALSE) }
                  ELSE {}
    IN read \cup unread \cup failed \cup cooked

\* Where the rank goes after a unit that is over: next tag or file, else the
\* next station (asdf) or the next day (sac/mseed).
Advance(r) ==
    IF k[r] + 1 < n[r]
    THEN /\ pc' = [pc EXCEPT ![r] = "unit"]
         /\ k' = [k EXCEPT ![r] = @ + 1]
         /\ UNCHANGED <<ista, jj>>
    ELSE IF IsAsdf
    THEN /\ pc' = [pc EXCEPT ![r] = "loop"]
         /\ ista' = [ista EXCEPT ![r] = @ + size]
         /\ UNCHANGED <<k, jj>>
    ELSE /\ pc' = [pc EXCEPT ![r] = "days"]
         /\ jj' = [jj EXCEPT ![r] = @ + 1]
         /\ UNCHANGED <<k, ista>>

\* locs.iloc[0] as passed to fft_parameters: asdf builds locs from the
\* file's own inventory, sac/mseed holds the whole station table.
ParamLoc(r) == IF IsAsdf THEN sta[r] ELSE 1

\* A skip whose continue is missing: the pass falls through to the sink.
AfterUnit_FallThrough(outcome) ==
    IF outcome = "CRASHED" THEN "error" ELSE "isfile"

\* Where a unit goes once its log line is written.
AfterUnit(outcome) ==
    CASE outcome = "SKIPPED" -> "next"
      [] outcome = "CRASHED" -> "error"
      [] OTHER -> "isfile"

\* for jj in range(len(tdir)): station = locs.iloc[ista]; tfiles = glob(...)
DayLoop(r) ==
    /\ pc[r] = "days"
    /\ sta' = [sta EXCEPT ![r] = ista[r] + 1]
    /\ IF jj[r] >= nEvent
       THEN /\ pc' = [pc EXCEPT ![r] = "loop"]
            /\ ista' = [ista EXCEPT ![r] = @ + size]
            /\ UNCHANGED <<jj, k, n>>
            /\ unit' = NoUnit
       ELSE \E nf \in 0 .. UnitsPerPass(size, MaxFiles) :
              IF nf = 0
              THEN /\ jj' = [jj EXCEPT ![r] = @ + 1]
                   /\ unit' = [NoUnit EXCEPT !.outcome = "SKIPPED",
                                             !.reason = "nofiles"]
                   /\ UNCHANGED <<pc, ista, k, n>>
              ELSE /\ pc' = [pc EXCEPT ![r] = "unit"]
                   /\ k' = [k EXCEPT ![r] = 0]
                   /\ n' = [n EXCEPT ![r] = nf]
                   /\ UNCHANGED <<ista, jj>>
                   /\ unit' = NoUnit
    /\ UNCHANGED <<fft_para, size, nEvent, nLocs, bcastVal, err, splits, cur,
                   assigned, archives, owners>>

\* A unit from its read to its spectrum.
ProcessUnit(r) ==
    /\ pc[r] = "unit"
    /\ \E in \in UnitInputs(fft_para, OneInput(size, nEvent, nLocs)) :
         LET res == RunUnit(fft_para, in)
             to == AfterUnit(res.outcome)
         IN /\ unit' = res
            /\ CASE to = "next" ->
                      /\ Advance(r)
                      /\ UNCHANGED <<err, cur>>
                 [] to = "error" ->
                      /\ pc' = [pc EXCEPT ![r] = "error"]
                      /\ err' = [err EXCEPT ![r] = res.reason]
                      /\ UNCHANGED <<ista, jj, k, cur>>
                 [] OTHER ->
                      /\ pc' = [pc EXCEPT ![r] = "isfile"]
                      /\ cur' = [cur EXCEPT ![r] =
                                   [loc |-> ParamLoc(r), spec |-> res.spec,
                                    itag |-> k[r]]]
                      /\ UNCHANGED <<err, ista, jj, k>>
    /\ UNCHANGED <<fft_para, size, nEvent, nLocs, bcastVal, splits, n, sta,
                   assigned, archives, owners>>

\* ------------------------------------------------------------ the sink
\* if not os.path.isfile(fft_h5)
CheckArchive(r) ==
    /\ pc[r] = "isfile"
    /\ owners' = [owners EXCEPT ![sta[r]] = @ \cup {r}]
    /\ pc' = [pc EXCEPT ![r] = IF archives[sta[r]].exists THEN "write" ELSE "create"]
    /\ UNCHANGED <<fft_para, size, nEvent, nLocs, bcastVal, err, splits, ista,
                   jj, k, n, sta, cur, assigned, archives>>
    /\ unit' = NoUnit

\* with pyasdf.ASDFDataSet(fft_h5,...) as fft_ds: pass
CreateArchive(r) ==
    /\ pc[r] = "create"
    /\ archives' = [archives EXCEPT ![sta[r]].exists = TRUE]
    /\ pc' = [pc EXCEPT ![r] = "write"]
    /\ UNCHANGED <<fft_para, size, nEvent, nLocs, bcastVal, err, splits, ista,
                   jj, k, n, sta, cur, assigned, owners>>
    /\ unit' = NoUnit

\* Whether this pass adds the station inventory:
\*   asdf      : itag==0 and the archive holds none yet
\*   sac/mseed : always
AddsInventory(fmt, itag, has) == IF fmt = "asdf" THEN itag = 0 /\ ~has ELSE TRUE

\* The with-block that opens the archive, builds the parameters, adds the
\* inventory, copies the half spectrum and adds the frame.
WriteFrame(r) ==
    /\ pc[r] = "write"
    /\ LET a == archives[sta[r]]
           inv == a.inv \/ AddsInventory(fft_para.data_format, cur[r].itag, a.inv)
           frame == [loc |-> cur[r].loc, spec |-> cur[r].spec]
       IN IF cur[r].spec = "none"
          THEN \* crap[:,:Nfft//2]=source_white[...] with source_white unassigned
               /\ archives' = [archives EXCEPT ![sta[r]].inv = inv]
               /\ pc' = [pc EXCEPT ![r] = "error"]
               /\ err' = [err EXCEPT ![r] = "NameError"]
               /\ UNCHANGED <<ista, jj, k>>
          ELSE /\ archives' = [archives EXCEPT ![sta[r]].inv = inv,
                                               ![sta[r]].frames = @ \cup {frame}]
               /\ Advance(r)
               /\ UNCHANGED err
    /\ cur' = [cur EXCEPT ![r] = NoCur]
    /\ UNCHANGED <<fft_para, size, nEvent, nLocs, bcastVal, splits, n, sta,
                   assigned, owners>>
    /\ unit' = NoUnit

\* comm.barrier(): a rank leaves once every rank has arrived.
Barrier(r) ==
    /\ pc[r] = "barrier"
    /\ \A q \in Ranks : pc[q] \in {"barrier", "done"}
    /\ pc' = [pc EXCEPT ![r] = "done"]
    /\ UNCHANGED <<fft_para, size, nEvent, nLocs, bcastVal, err, splits, ista,
                   jj, k, n, sta, cur, assigned, archives, owners>>
    /\ unit' = NoUnit

Next ==
    \E r \in Ranks :
        \/ Setup(r)
        \/ Bcast(r)
        \/ StationLoop(r)
        \/ DayLoop(r)
        \/ ProcessUnit(r)
        \/ CheckArchive(r)
        \/ CreateArchive(r)
        \/ WriteFrame(r)
        \/ Barrier(r)

Spec == Init /\ [][Next]_vars

\* ==================================================================
\* Properties
\* ==================================================================
Finished(r) == pc[r] \in {"barrier", "done"}

Share(r) == {i \in 0 .. (splits[r] - 1) : i % size = r}

\* C1: the station loop gives every index below splits to exactly one rank,
\* the rank equal to the index modulo size: a rank enters the body only for
\* its own indices, a rank that has left the loop has entered it for all of
\* them, and once all ranks have left the loop every index is taken and the
\* ranks' counts differ by at most one.
C1_StaticPartition ==
    /\ \A r \in Ranks : pc[r] \notin {"start", "bcast", "error"} =>
          /\ assigned[r] \subseteq Share(r)
          /\ Finished(r) => assigned[r] = Share(r)
    /\ \A r, q \in Ranks : r # q => assigned[r] \cap assigned[q] = {}
    /\ (\A r \in Ranks : Finished(r)) =>
          /\ UNION {assigned[r] : r \in Ranks} = 0 .. (splits[0] - 1)
          /\ \A r, q \in Ranks :
                Cardinality(assigned[r]) - Cardinality(assigned[q]) <= 1

\* Two ranks are through the loop and the split is uneven: one index, taken
\* by rank 0, while rank 1 only met the guard.
C1_Witness ==
    /\ size = 2
    /\ \A r \in Ranks : pc[r] = "done"
    /\ assigned[0] = {0}
    /\ assigned[1] = {}

\* C2: a unit whose day MAD or STD is zero or NaN is skipped in every format:
\* it is never segmented and no ratio is divided by such a statistic.
C2_DegenerateDaySkipped ==
    (unit.mad \in {"z", "nan"} \/ unit.std \in {"z", "nan"}) =>
        /\ unit.outcome = "SKIPPED"
        /\ unit.trail = <<>>
        /\ unit.ratios = <<>>

SinkPcs == {"isfile", "create", "write"}

\* C3: the step that ends a unit before its spectrum (a skip for degenerate
\* statistics, no windows, an unreadable or empty input, or the exception
\* that takes the place of the skip) leaves every archive as it was and sends
\* no rank on to the sink.
C3_SkipLeavesArchives ==
    [][ unit'.outcome \in {"SKIPPED", "CRASHED"} =>
           /\ archives' = archives
           /\ \A r \in Ranks : pc'[r] \in SinkPcs => pc[r] \in SinkPcs ]_vars

\* A degenerate day is skipped while an archive already holds a frame.
C3_Witness ==
    /\ unit.outcome = "SKIPPED"
    /\ unit.reason = "degenerate"
    /\ \E s \in Stations : archives[s].frames # {}

\* C4: no rank is ended by the failure of one unit (an input that cannot be
\* opened, a preprocessing step that fails).
C4_UnitFailureContained ==
    \A r \in Ranks : err[r] \notin {"OpenFailed", "PreproFailed", "IndexError"}

C6_NfftEven ==
    unit.NtS > 0 =>
        /\ unit.Nfft % 2 = 0
        /\ unit.Nfft >= 2
        /\ unit.Nfft >= unit.NtS

SetupErrors == {"NoDataFile", "NoFormat", "BadFormat", "NoStations"}

\* C7: once a rank has met a setup error no rank is in or past the station
\* loop, and the run does not come to rest before every rank has ended.
C7_SetupAborts ==
    (\E r \in Ranks : err[r] \in SetupErrors) =>
        /\ \A r \in Ranks : pc[r] \in {"start", "bcast", "error"}
        /\ (\A r \in Ranks : pc[r] = "error") \/ ENABLED Next

\* C8: each archive is tested, created and appended to by one rank only.
C8_SingleOwner ==
    \A s \in Stations : Cardinality(owners[s]) <= 1

FullTrail == <<"metrics_ok", "segmented", "packed", "time_normalized",
               "spectrum_computed">>

\* C10: for every setting of the two switches a unit that was read, has
\* positive finite day statistics and at least one window passes packed,
\* time_normalized and spectrum_computed in that order and its frame is
\* written; every other unit ends SKIPPED, for a metrics failure, an empty
\* window set or an ingestion error.
C10_ForwardToDone ==
    /\ (unit.mad = "p" /\ unit.std = "p" /\ Len(unit.wins) >= 1) =>
          unit.outcome = "READY" /\ unit.trail = FullTrail
    /\ \A r \in Ranks : err[r] \notin {"NameError", "NameError_source"}
    /\ (unit.L # NoneVal /\ Len(unit.wins) = 0) => unit.outcome = "SKIPPED"
    /\ unit.outcome = "SKIPPED" =>
          unit.reason \in {"degenerate", "nowindows", "unreadable", "empty",
                           "nowaveforms", "notags", "nofiles"}

\* Rank r stands between the creation of the archive of station s and the
\* with-block that adds the frame.
InSink(r, s) == pc[r] = "write" /\ sta[r] = s

\* C11: a unit leaves its archive either untouched or holding its complete
\* frame: an archive that exists, or holds an inventory, and that no rank is
\* about to write to, holds at least one frame.
C11_NoPartialWrite ==
    \A s \in Stations :
        ((archives[s].exists \/ archives[s].inv)
            /\ ~(\E r \in Ranks : InSink(r, s))) => archives[s].frames # {}

\* C12: the location record stored with a frame is the record of the station
\* that names the archive holding the frame.
C12_OwnLocation ==
    \A s \in Stations : \A f \in archives[s].frames : f.loc = s
====
